---- MODULE Spec2Model ----
(***************************************************************************)
(* Model of tools/commFINAL.py: the acknowledged, COBS-framed, CRC-8       *)
(* checked serial protocol between the host and the motion controller.     *)
(*                                                                         *)
(* Two flows run concurrently: the main thread (command loop calling       *)
(* send_command) and the receiver thread (receiver_thread calling          *)
(* process_binary_message, which calls send_command for the auto-ack).     *)
(* They share last_sent_id, pending_acks, stop_thread and the serial link  *)
(* without any lock; every access to a shared object is a step of its own. *)
(***************************************************************************)
EXTENDS Integers, Sequences, FiniteSets, TLC

\* ------------------------------------------------------------ constants

CMD_ACK == 1
CMD_PAUSE == 18
CMD_POSITION == 33
CMD_STATUS == 34
\* a command code that matches no known command
CMD_UNKNOWN == 85

\* calculate_crc8: initial register value and polynomial
CrcInit == 255
Polynomial == 7

\* receiver_thread: "reasonable frame size"
MaxFrameLen == 50

\* process_binary_message: minimum payload of a status and of a position report
StatusMinLen == 19
PositionMinLen == 12

\* send_command: default timeout, in seconds (the unit of the model's clock)
Timeout == 2

\* random.randint(1, 255): the largest id the allocator draws
IdMax == 255

\* ------------------------------------------------------------ bounds

\* the allocator's draws explored: 1..NumLowIds and IdMax
NumLowIds == 1
\* commands the user issues during a session
MaxSends == 2
\* frames the peer sends during a session
MaxFrames == 2

DrawIds == (1..NumLowIds) \cup {IdMax}

Byte == 0..255

\* ------------------------------------------------------------ bytes

\* a ^ b on 4-bit values, bit by bit
Xor4[a \in 0..15, b \in 0..15] ==
    LET x(k) == ((((a \div (2 ^ k)) % 2) + ((b \div (2 ^ k)) % 2)) % 2) * (2 ^ k)
    IN  x(0) + x(1) + x(2) + x(3)

\* a ^ b on 8-bit values
Xor8(a, b) == Xor4[a % 16, b % 16] + 16 * Xor4[a \div 16, b \div 16]

\* one round of the inner loop of calculate_crc8 (MSB first)
CrcRound[crc \in Byte] ==
    IF crc >= 128
    THEN Xor8((crc * 2) % 256, Polynomial)
    ELSE (crc * 2) % 256

\* crc ^= byte, then the eight rounds
CrcByte(crc, byte) ==
    CrcRound[CrcRound[CrcRound[CrcRound[
    CrcRound[CrcRound[CrcRound[CrcRound[Xor8(crc, byte)]]]]]]]]

\* for byte in data: crc ^= byte, eight rounds; reg[i, crc] is the final
\* register when the register is crc before byte i
calculate_crc8(data) ==
    LET reg[i \in 1..(Len(data) + 1), crc \in Byte] ==
            IF i > Len(data) THEN crc ELSE reg[i + 1, CrcByte(crc, data[i])]
    IN  reg[1, CrcInit]

\* ------------------------------------------------------------ COBS
\* cobs.encode / cobs.decode of the cobs package, as called by send_command
\* and receiver_thread.

\* number of non-zero bytes of s from index i on, counted up to cap
RECURSIVE RunLen(_, _, _)
RunLen(s, i, cap) ==
    IF cap = 0 \/ i > Len(s) \/ s[i] = 0 THEN 0
    ELSE 1 + RunLen(s, i + 1, cap - 1)

RECURSIVE CobsEncFrom(_, _)
CobsEncFrom(s, i) ==
    IF i > Len(s) THEN <<1>>
    ELSE LET run == RunLen(s, i, 254)
             blk == SubSeq(s, i, i + run - 1)
         IN  IF run = 254
             THEN <<255>> \o blk \o
                  (IF i + run > Len(s) THEN <<>> ELSE CobsEncFrom(s, i + run))
             ELSE IF i + run > Len(s)
             THEN <<run + 1>> \o blk
             ELSE <<run + 1>> \o blk \o CobsEncFrom(s, i + run + 1)

CobsEncode(s) == CobsEncFrom(s, 1)

DecodeError == [ok |-> FALSE, bytes |-> <<>>]

HasZero(s) == \E k \in 1..Len(s) : s[k] = 0

RECURSIVE CobsDecFrom(_, _, _)
CobsDecFrom(f, idx, out) ==
    LET length == f[idx]
        end == idx + length
        copy == SubSeq(f, idx + 1, IF end - 1 > Len(f) THEN Len(f) ELSE end - 1)
    IN  IF length = 0 \/ HasZero(copy) THEN DecodeError
        ELSE IF end - 1 > Len(f) THEN DecodeError
        ELSE IF end - 1 < Len(f)
        THEN CobsDecFrom(f, end,
                         IF length < 255 THEN (out \o copy) \o <<0>> ELSE out \o copy)
        ELSE [ok |-> TRUE, bytes |-> out \o copy]

CobsDecode(f) ==
    IF Len(f) = 0 THEN [ok |-> TRUE, bytes |-> <<>>] ELSE CobsDecFrom(f, 1, <<>>)

\* ------------------------------------------------------------ envelope

\* send_command: raw_command = cmd, id, len(data), data, crc
BuildRaw(cmd_type, msg_id, data) ==
    LET hdr == <<cmd_type, msg_id, Len(data)>> \o data
    IN  Append(hdr, calculate_crc8(hdr))

\* send_command: packet = cobs.encode(raw_command) + b'\x00'
Packet(raw) == CobsEncode(raw) \o <<0>>

\* ------------------------------------------------------------ inputs

\* commands the command loop of main sends: 0x01 ("ping", the ACK code) and
\* a command that waits for its acknowledgment; both without payload
UserCmds == {CMD_ACK, CMD_PAUSE}

\* message ids the peer gives its own messages
PeerIds == {7}

\* a payload of n bytes
Payload(n) == [i \in 1..n |-> (i * 3) % 256]

\* raw with its trailing checksum byte changed
BadCrc(raw) == [raw EXCEPT ![Len(raw)] = Xor8(raw[Len(raw)], 1)]

\* raw with its last payload byte dropped, length byte and checksum kept
Truncated(raw) == SubSeq(raw, 1, Len(raw) - 2) \o <<raw[Len(raw)]>>

\* envelopes the peer sends: acknowledgments of ids the host may have used,
\* and commands and reports of its own
AckEnvelopes == {BuildRaw(CMD_ACK, p, <<a>>) : p \in PeerIds, a \in DrawIds}

CommandEnvelopes ==
    {BuildRaw(CMD_UNKNOWN, p, <<>>) : p \in PeerIds}
        \cup {BuildRaw(CMD_STATUS, p, Payload(MaxFrameLen - 5)) : p \in PeerIds}
        \cup {BuildRaw(CMD_POSITION, IdMax, Payload(PositionMinLen))}

\* envelopes with something odd about them: an ACK without payload, the
\* reserved id 0, a wrong checksum, a truncated payload, fewer than 4 bytes,
\* and one byte more than the largest the receiver's frame size limit lets
\* through (the status report of CommandEnvelopes)
OddEnvelopes ==
    {BuildRaw(CMD_ACK, p, <<>>) : p \in PeerIds}
        \cup {BuildRaw(CMD_UNKNOWN, 0, <<>>), BuildRaw(CMD_ACK, 0, <<1>>)}
        \cup {BadCrc(BuildRaw(CMD_STATUS, 0, Payload(StatusMinLen)))}
        \cup {BadCrc(BuildRaw(CMD_ACK, p, <<1>>)) : p \in PeerIds}
        \cup {BadCrc(BuildRaw(CMD_STATUS, p, Payload(StatusMinLen))) : p \in PeerIds}
        \cup {Truncated(BuildRaw(CMD_POSITION, p, Payload(PositionMinLen))) : p \in PeerIds}
        \cup {<<CMD_ACK, 1>>}
        \cup {BuildRaw(CMD_STATUS, p, Payload(MaxFrameLen - 4)) : p \in PeerIds}

\* what ser.read_until(b'\x00') returns when bytes arrived: a delimited
\* frame, the delimiter alone, or (read timeout in the middle of a frame)
\* bytes without a delimiter, which do not decode
InboundReads ==
    {Packet(e) : e \in AckEnvelopes \cup CommandEnvelopes \cup OddEnvelopes}
        \cup {<<0>>, <<5, CMD_ACK, 1>>}

\* ------------------------------------------------------------ state

Threads == {"main", "rx"}

VARIABLES
    last_sent_id,   \* global last_sent_id
    pending_acks,   \* global pending_acks: id -> [cmd, acked]
    stop_thread,    \* global stop_thread
    ser_open,       \* ser.is_open
    pc,             \* each thread's position
    sc,             \* each thread's send_command frame: arguments, locals, result
    elapsed,        \* time.time() - start_time of each thread's wait, in seconds
    writing,        \* threads inside ser.write
    written,        \* packets each thread wrote during its current operation
    rx_frame,       \* receiver_thread: frame, delimiter stripped
    shown,          \* what the dispatch of rx_frame printed
    heard,          \* history: ACK envelopes dispatched for main's open transaction
    sends,          \* commands issued so far
    frames          \* reads that returned bytes so far

vars == <<last_sent_id, pending_acks, stop_thread, ser_open, pc, sc,
          elapsed, writing, written, rx_frame, shown, heard, sends, frames>>

NoCall == [cmd_type |-> 0, data |-> <<>>, msg_id |-> 0, result |-> "none"]

\* history of main's open transaction: what its registration replaced
\* ("open": the unacknowledged entry of an earlier command, "acked": an
\* acknowledged entry, "none": anything else), and whether an ACK envelope
\* naming its id was dispatched (any), a well-formed and checksum-valid one
\* before the deadline (valid)
NotHeard == [any |-> FALSE, valid |-> FALSE, prior |-> "none"]

\* the positions of send_command at which the caller waits for the ACK
WaitPcs == {"while", "check"}

\* the positions of send_command
SendPcs == {"gen", "store", "register", "write", "writing"} \cup WaitPcs

Init ==
    /\ last_sent_id = 0
    /\ pending_acks = <<>>
    /\ stop_thread = FALSE
    /\ ser_open = TRUE
    /\ pc = [t \in Threads |-> IF t = "main" THEN "prompt" ELSE "loop"]
    /\ sc = [t \in Threads |-> NoCall]
    /\ elapsed = [t \in Threads |-> 0]
    /\ writing = {}
    /\ written = [t \in Threads |-> <<>>]
    /\ rx_frame = <<>>
    /\ shown = {}
    /\ heard = NotHeard
    /\ sends = 0
    /\ frames = 0

\* ------------------------------------------------------------ send_command
\* send_command(ser, cmd_type, data, timeout) as run by thread t: by main from
\* the command loop, by rx from process_binary_message (the auto-ack).

\* where send_command returns to: the command loop of main, the loop of rx
Caller(t) == IF t = "main" THEN "returned" ELSE "loop"

\* an exception leaving send_command: main() catches serial.SerialException
\* and runs its finally block; receiver_thread's inner try catches it and
\* continues with the next frame
Raised(t) == IF t = "main" THEN "finally" ELSE "loop"

Return(t, res) ==
    /\ pc' = [pc EXCEPT ![t] = Caller(t)]
    /\ sc' = [sc EXCEPT ![t].result = res]

\* an allocator that also keeps clear of the ids of unacknowledged entries
DrawUnused(t) ==
    /\ pc[t] = "gen"
    /\ \E new_id \in DrawIds :
          /\ ~(new_id = last_sent_id \/ new_id = 0)
          /\ ~(new_id \in DOMAIN pending_acks /\ ~pending_acks[new_id].acked)
          /\ sc' = [sc EXCEPT ![t].msg_id = new_id]
    /\ pc' = [pc EXCEPT ![t] = "store"]
    /\ UNCHANGED <<last_sent_id, pending_acks, stop_thread, ser_open,
                   elapsed, writing, written, rx_frame, shown, heard, sends, frames>>

\* an allocator whose draw may be 0: random.randint(0, 255) without the test
\* for 0x00
DrawZero(t) ==
    /\ pc[t] = "gen"
    /\ \E new_id \in DrawIds \cup {0} :
          /\ new_id # last_sent_id
          /\ sc' = [sc EXCEPT ![t].msg_id = new_id]
    /\ pc' = [pc EXCEPT ![t] = "store"]
    /\ UNCHANGED <<last_sent_id, pending_acks, stop_thread, ser_open,
                   elapsed, writing, written, rx_frame, shown, heard, sends, frames>>

\* generate_msg_id: the draw that ends the while loop; the loop's condition
\* reads last_sent_id (a call that finds last_sent_id changed since its first
\* read of it returns the value of that read without a draw: a nonzero id
\* other than last_sent_id, one of the values drawn here)
Draw(t) ==
    /\ pc[t] = "gen"
    /\ \E new_id \in DrawIds :
          /\ ~(new_id = last_sent_id \/ new_id = 0)
          /\ sc' = [sc EXCEPT ![t].msg_id = new_id]
    /\ pc' = [pc EXCEPT ![t] = "store"]
    /\ UNCHANGED <<last_sent_id, pending_acks, stop_thread, ser_open,
                   elapsed, writing, written, rx_frame, shown, heard, sends, frames>>

\* a registration that leaves the entry of an id already in the table alone
RegisteredKeeps(table, msg_id, cmd_type) ==
    [k \in DOMAIN table \cup {msg_id} |->
        IF k \in DOMAIN table THEN table[k]
        ELSE [cmd |-> cmd_type, acked |-> FALSE]]

\* pending_acks[msg_id] = {'cmd': cmd_type, 'timestamp': ..., 'acked': False}
\* (the timestamp is written here and read nowhere; the model leaves it out)
Registered(table, msg_id, cmd_type) ==
    [k \in DOMAIN table \cup {msg_id} |->
        IF k = msg_id THEN [cmd |-> cmd_type, acked |-> FALSE] ELSE table[k]]

\* a send_command that registers the transaction before it encodes
StoreRegistersFirst(t) ==
    /\ pc[t] = "store"
    /\ last_sent_id' = sc[t].msg_id
    /\ pending_acks' = Registered(pending_acks, sc[t].msg_id, sc[t].cmd_type)
    /\ \E encoded \in BOOLEAN :
          IF encoded
          THEN /\ pc' = [pc EXCEPT ![t] = "register"]
               /\ sc' = sc
          ELSE Return(t, "False")
    /\ UNCHANGED <<stop_thread, ser_open,
                   elapsed, writing, written, rx_frame, shown, heard, sends, frames>>

\* generate_msg_id: last_sent_id = new_id; then send_command builds the
\* envelope and encodes it; cobs.encode raising makes it return False
Store(t) ==
    /\ pc[t] = "store"
    /\ last_sent_id' = sc[t].msg_id
    /\ \E encoded \in BOOLEAN :
          IF encoded
          THEN /\ pc' = [pc EXCEPT ![t] = "register"]
               /\ sc' = sc
          ELSE Return(t, "False")
    /\ UNCHANGED <<pending_acks, stop_thread, ser_open,
                   elapsed, writing, written, rx_frame, shown, heard, sends, frames>>

\* a send_command that goes on to the write without registering
RegisterNothing(t) ==
    /\ pc[t] = "register"
    /\ pc' = [pc EXCEPT ![t] = "write"]
    /\ heard' = IF t = "main" THEN NotHeard ELSE heard
    /\ UNCHANGED <<last_sent_id, pending_acks, stop_thread, ser_open, sc,
                   elapsed, writing, written, rx_frame, shown, sends, frames>>

\* what the registration of call replaces in table
Replaced(table, call) ==
    IF call.cmd_type = CMD_ACK \/ call.msg_id \notin DOMAIN table THEN "none"
    ELSE IF table[call.msg_id].acked THEN "acked"
    ELSE IF table[call.msg_id].cmd # CMD_ACK THEN "open"
    ELSE "none"

Register(t) ==
    /\ pc[t] = "register"
    /\ pending_acks' = Registered(pending_acks, sc[t].msg_id, sc[t].cmd_type)
    /\ pc' = [pc EXCEPT ![t] = "write"]
    /\ heard' = IF t = "main"
                THEN [NotHeard EXCEPT !.prior = Replaced(pending_acks, sc[t])]
                ELSE heard
    /\ UNCHANGED <<last_sent_id, stop_thread, ser_open, sc,
                   elapsed, writing, written, rx_frame, shown, sends, frames>>

\* ser.write(packet) is entered, or raises serial.SerialException: it does
\* on a closed port, and it may at any call (the device is gone)
WriteBegin(t) ==
    /\ pc[t] = "write"
    /\ \E link_error \in (IF ser_open THEN BOOLEAN ELSE {TRUE}) :
          IF link_error
          THEN /\ writing' = writing
               /\ pc' = [pc EXCEPT ![t] = Raised(t)]
          ELSE /\ writing' = writing \cup {t}
               /\ pc' = [pc EXCEPT ![t] = "writing"]
    /\ UNCHANGED <<last_sent_id, pending_acks, stop_thread, ser_open, sc,
                   elapsed, written, rx_frame, shown, heard, sends, frames>>

\* the test as it was before the source's "Fixed from 0x015"
IsAckCommand0x15(cmd_type) == cmd_type = 21

\* "For ACK commands, don't wait for an ACK"
IsAckCommand(cmd_type) == cmd_type = CMD_ACK

\* ser.write(packet) returns; an ACK returns True at once, any other command
\* takes start_time and enters the wait loop
WriteEnd(t) ==
    /\ pc[t] = "writing"
    /\ writing' = writing \ {t}
    /\ \E raw \in {BuildRaw(sc[t].cmd_type, sc[t].msg_id, sc[t].data)} :
          written' = [written EXCEPT ![t] = Append(@, Packet(raw))]
    /\ IF IsAckCommand(sc[t].cmd_type)
       THEN /\ Return(t, "True")
            /\ elapsed' = elapsed
       ELSE /\ pc' = [pc EXCEPT ![t] = "while"]
            /\ elapsed' = [elapsed EXCEPT ![t] = 0]
            /\ sc' = sc
    /\ UNCHANGED <<last_sent_id, pending_acks, stop_thread, ser_open,
                   rx_frame, shown, heard, sends, frames>>

\* a loop condition that gives up one second early
InTimeEarly(waited, timeout) == waited < timeout - 1

\* while time.time() - start_time < timeout
InTime(waited, timeout) == waited < timeout

\* the loop condition; when it fails: "No ACK received", return False
While(t) ==
    /\ pc[t] = "while"
    /\ IF InTime(elapsed[t], Timeout)
       THEN /\ pc' = [pc EXCEPT ![t] = "check"]
            /\ sc' = sc
       ELSE Return(t, "False")
    /\ UNCHANGED <<last_sent_id, pending_acks, stop_thread, ser_open,
                   elapsed, writing, written, rx_frame, shown, heard, sends, frames>>

\* msg_id in pending_acks and pending_acks[msg_id]['acked']
Acked(table, msg_id) == msg_id \in DOMAIN table /\ table[msg_id].acked

\* a wait loop that sends the frame again when the flag is not set
CheckRetries(t) ==
    /\ pc[t] = "check"
    /\ IF Acked(pending_acks, sc[t].msg_id)
       THEN Return(t, "True")
       ELSE /\ pc' = [pc EXCEPT ![t] = "write"]
            /\ sc' = sc
    /\ UNCHANGED <<last_sent_id, pending_acks, stop_thread, ser_open,
                   elapsed, writing, written, rx_frame, shown, heard, sends, frames>>

\* the test of the flag; when it fails: time.sleep(0.01), a fraction of the
\* clock's unit, and back to the loop condition
Check(t) ==
    /\ pc[t] = "check"
    /\ IF Acked(pending_acks, sc[t].msg_id)
       THEN Return(t, "True")
       ELSE /\ pc' = [pc EXCEPT ![t] = "while"]
            /\ sc' = sc
    /\ UNCHANGED <<last_sent_id, pending_acks, stop_thread, ser_open,
                   elapsed, writing, written, rx_frame, shown, heard, sends, frames>>

\* a second passes for the threads that wait (the count stops at the
\* timeout: the loop condition tells no later time from it)
Tick ==
    /\ \E t \in Threads : pc[t] \in WaitPcs /\ elapsed[t] < Timeout
    /\ elapsed' = [t \in Threads |->
                      IF pc[t] \in WaitPcs /\ elapsed[t] < Timeout
                      THEN elapsed[t] + 1 ELSE elapsed[t]]
    /\ UNCHANGED <<last_sent_id, pending_acks, stop_thread, ser_open, pc, sc,
                   writing, written, rx_frame, shown, heard, sends, frames>>

\* ------------------------------------------------------------ main

\* the command loop reads a command and calls send_command
MainCommand ==
    /\ pc["main"] = "prompt"
    /\ sends < MaxSends
    /\ sends' = sends + 1
    /\ \E cmd \in UserCmds :
          sc' = [sc EXCEPT !["main"] = [NoCall EXCEPT !.cmd_type = cmd]]
    /\ pc' = [pc EXCEPT !["main"] = "gen"]
    /\ UNCHANGED <<last_sent_id, pending_acks, stop_thread, ser_open,
                   elapsed, writing, written, rx_frame, shown, heard, frames>>

\* the command loop drops what send_command returned and prompts again
MainReturned ==
    /\ pc["main"] = "returned"
    /\ pc' = [pc EXCEPT !["main"] = "prompt"]
    /\ sc' = [sc EXCEPT !["main"] = NoCall]
    /\ written' = [written EXCEPT !["main"] = <<>>]
    /\ elapsed' = [elapsed EXCEPT !["main"] = 0]
    /\ heard' = NotHeard
    /\ UNCHANGED <<last_sent_id, pending_acks, stop_thread, ser_open,
                   writing, rx_frame, shown, sends, frames>>

\* "q", or Ctrl-C at the prompt: break, then the finally block
MainQuit ==
    /\ pc["main"] = "prompt"
    /\ pc' = [pc EXCEPT !["main"] = "finally"]
    /\ UNCHANGED <<last_sent_id, pending_acks, stop_thread, ser_open, sc,
                   elapsed, writing, written, rx_frame, shown, heard, sends, frames>>

\* Ctrl-C inside send_command: KeyboardInterrupt leaves it for the finally block
MainInterrupt ==
    /\ pc["main"] \in SendPcs
    /\ pc' = [pc EXCEPT !["main"] = "finally"]
    /\ writing' = writing \ {"main"}
    /\ sc' = [sc EXCEPT !["main"] = NoCall]
    /\ written' = [written EXCEPT !["main"] = <<>>]
    /\ elapsed' = [elapsed EXCEPT !["main"] = 0]
    /\ heard' = NotHeard
    /\ UNCHANGED <<last_sent_id, pending_acks, stop_thread, ser_open,
                   rx_frame, shown, sends, frames>>

\* finally: stop_thread = True, then thread.join(1.0) is entered
MainFinally ==
    /\ pc["main"] = "finally"
    /\ stop_thread' = TRUE
    /\ pc' = [pc EXCEPT !["main"] = "join"]
    /\ UNCHANGED <<last_sent_id, pending_acks, ser_open, sc,
                   elapsed, writing, written, rx_frame, shown, heard, sends, frames>>

\* thread.join(1.0) returns (the receiver ended, or one second passed) and
\* ser.close() is called
MainClose ==
    /\ pc["main"] = "join"
    /\ ser_open' = FALSE
    /\ pc' = [pc EXCEPT !["main"] = "exit"]
    /\ UNCHANGED <<last_sent_id, pending_acks, stop_thread, sc,
                   elapsed, writing, written, rx_frame, shown, heard, sends, frames>>

\* ------------------------------------------------------------ receiver

\* a loop head that does not look at the stop flag
RxLoopIgnoresStop ==
    /\ pc["rx"] = "loop"
    /\ pc' = [pc EXCEPT !["rx"] = "read"]
    /\ sc' = [sc EXCEPT !["rx"] = NoCall]
    /\ written' = [written EXCEPT !["rx"] = <<>>]
    /\ rx_frame' = <<>>
    /\ shown' = {}
    /\ UNCHANGED <<last_sent_id, pending_acks, stop_thread, ser_open,
                   elapsed, writing, heard, sends, frames>>

\* while not stop_thread; the locals of the iteration before are dead
RxLoop ==
    /\ pc["rx"] = "loop"
    /\ pc' = [pc EXCEPT !["rx"] = IF stop_thread THEN "done" ELSE "read"]
    /\ sc' = [sc EXCEPT !["rx"] = NoCall]
    /\ written' = [written EXCEPT !["rx"] = <<>>]
    /\ rx_frame' = <<>>
    /\ shown' = {}
    /\ UNCHANGED <<last_sent_id, pending_acks, stop_thread, ser_open,
                   elapsed, writing, heard, sends, frames>>

\* frame[:-1] if frame.endswith(b'\x00')
Strip(raw) ==
    IF Len(raw) > 0 /\ raw[Len(raw)] = 0 THEN SubSeq(raw, 1, Len(raw) - 1) ELSE raw

\* a size check that lets one byte more through
OversizedOffByOne(frame) == Len(frame) > MaxFrameLen + 1

\* "Reasonable frame size check"
Oversized(frame) == Len(frame) > MaxFrameLen

\* a receiver that leaves its loop on a frame that does not decode
AfterReadBreaks(raw) ==
    IF Len(raw) <= 1 \/ Len(Strip(raw)) = 0 THEN "loop"
    ELSE IF Oversized(Strip(raw)) THEN "loop"
    ELSE IF ~CobsDecode(Strip(raw)).ok THEN "done"
    ELSE "dispatch"

\* receiver_thread from the read to the call of process_binary_message:
\* where the loop goes with what ser.read_until returned
AfterRead(raw) ==
    IF Len(raw) <= 1 \/ Len(Strip(raw)) = 0 THEN "loop"
    ELSE IF Oversized(Strip(raw)) THEN "loop"
    ELSE IF ~CobsDecode(Strip(raw)).ok THEN "loop"
    ELSE "dispatch"

\* ser.read_until(b'\x00') returns bytes or, after the read timeout, nothing
RxRead ==
    /\ pc["rx"] = "read"
    /\ ser_open
    /\ \E raw \in {<<>>} \cup (IF frames < MaxFrames THEN InboundReads ELSE {}) :
          /\ frames' = IF raw = <<>> THEN frames ELSE frames + 1
          /\ rx_frame' = Strip(raw)
          /\ shown' = IF Len(raw) > 1 /\ Oversized(Strip(raw)) THEN {"oversized"} ELSE {}
          /\ pc' = [pc EXCEPT !["rx"] = AfterRead(raw)]
    /\ UNCHANGED <<last_sent_id, pending_acks, stop_thread, ser_open, sc,
                   elapsed, writing, written, heard, sends>>

\* ser.read_until raises: it does on a closed port, and it may at any call
\* (the device is gone); the outer handler prints "Receiver exception"
RxReadError ==
    /\ pc["rx"] = "read"
    /\ pc' = [pc EXCEPT !["rx"] = "error"]
    /\ UNCHANGED <<last_sent_id, pending_acks, stop_thread, ser_open, sc,
                   elapsed, writing, written, rx_frame, shown, heard, sends, frames>>

\* the outer handler's time.sleep(0.05) is over: next iteration
RxRecover ==
    /\ pc["rx"] = "error"
    /\ pc' = [pc EXCEPT !["rx"] = "loop"]
    /\ UNCHANGED <<last_sent_id, pending_acks, stop_thread, ser_open, sc,
                   elapsed, writing, written, rx_frame, shown, heard, sends, frames>>

\* process_binary_message returned before looking at the message
Dropped(table) == [table |-> table, shown |-> {}, ack |-> FALSE, msg_id |-> 0]

\* an ACK branch that evicts the transaction it resolves
MarkAckedEvicts(table, acked_id) ==
    [k \in DOMAIN table \ {acked_id} |-> table[k]]

\* the ACK branch: pending_acks[acked_id]['acked'] = True for a known id
MarkAcked(table, acked_id) ==
    IF acked_id \in DOMAIN table
    THEN [table EXCEPT ![acked_id].acked = TRUE]
    ELSE table

\* an auto-ack for the known reports only
WantsAckKnown(cmd_type, crc_valid) ==
    cmd_type \in {CMD_STATUS, CMD_POSITION} /\ crc_valid

\* an auto-ack for every valid message, acknowledgments included
WantsAckAll(cmd_type, crc_valid) == crc_valid

\* "Send ACK for valid non-ACK messages"
WantsAck(cmd_type, crc_valid) == cmd_type # CMD_ACK /\ crc_valid

\* process_binary_message with its length check (lines 199-202) or its id
\* check (lines 209-212) left out
ProcessVariant(decoded, table, check_length, check_id) ==
    IF Len(decoded) < 4 THEN Dropped(table)
    ELSE LET cmd_type == decoded[1]
             msg_id == decoded[2]
             data_length == decoded[3]
             received_crc == decoded[Len(decoded)]
             crc_valid ==
                 received_crc = calculate_crc8(SubSeq(decoded, 1, Len(decoded) - 1))
             data == SubSeq(decoded, 4, Len(decoded) - 1)
         IN  IF check_length /\ Len(decoded) # data_length + 4 THEN Dropped(table)
             ELSE IF check_id /\ msg_id = 0 THEN Dropped(table)
             ELSE [table |->
                       IF data_length > 0 /\ cmd_type = CMD_ACK
                       THEN MarkAcked(table, data[1])
                       ELSE table,
                   shown |->
                       (IF data_length > 0 /\ cmd_type = CMD_STATUS
                           /\ data_length >= StatusMinLen
                        THEN {"status"} ELSE {})
                       \cup (IF data_length > 0 /\ cmd_type = CMD_POSITION
                                /\ data_length >= PositionMinLen
                             THEN {"position"} ELSE {})
                       \cup (IF crc_valid THEN {} ELSE {"crc_error"}),
                   ack |-> WantsAck(cmd_type, crc_valid),
                   msg_id |-> msg_id]

ProcessMessageNoLengthCheck(decoded, table) ==
    ProcessVariant(decoded, table, FALSE, TRUE)

ProcessMessageNoIdCheck(decoded, table) ==
    ProcessVariant(decoded, table, TRUE, FALSE)

\* process_binary_message(decoded, ser) up to its call of send_command: the
\* table it leaves, what it prints, and whether (and for which id) it sends
\* the auto-ack
ProcessMessage(decoded, table) ==
    IF Len(decoded) < 4 THEN Dropped(table)
    ELSE LET cmd_type == decoded[1]
             msg_id == decoded[2]
             data_length == decoded[3]
             received_crc == decoded[Len(decoded)]
             crc_valid ==
                 received_crc = calculate_crc8(SubSeq(decoded, 1, Len(decoded) - 1))
             data == SubSeq(decoded, 4, Len(decoded) - 1)
         IN  IF Len(decoded) # data_length + 4 THEN Dropped(table)
             ELSE IF msg_id = 0 THEN Dropped(table)
             ELSE [table |->
                       IF data_length > 0 /\ cmd_type = CMD_ACK
                       THEN MarkAcked(table, data[1])
                       ELSE table,
                   shown |->
                       (IF data_length > 0 /\ cmd_type = CMD_STATUS
                           /\ data_length >= StatusMinLen
                        THEN {"status"} ELSE {})
                       \cup (IF data_length > 0 /\ cmd_type = CMD_POSITION
                                /\ data_length >= PositionMinLen
                             THEN {"position"} ELSE {})
                       \cup (IF crc_valid THEN {} ELSE {"crc_error"}),
                   ack |-> WantsAck(cmd_type, crc_valid),
                   msg_id |-> msg_id]

\* decoded is an ACK envelope whose payload's first byte is m
CarriesAck(decoded, m) ==
    /\ Len(decoded) >= 5
    /\ decoded[1] = CMD_ACK
    /\ decoded[4] = m

\* decoded is well-formed (length byte = byte count - 4, id not the reserved
\* 0) and its checksum is valid
WellFormed(decoded) ==
    /\ Len(decoded) >= 4
    /\ decoded[3] = Len(decoded) - 4
    /\ decoded[2] # 0
    /\ decoded[Len(decoded)] = calculate_crc8(SubSeq(decoded, 1, Len(decoded) - 1))

\* main has registered its transaction and send_command has not returned
MainOpen == pc["main"] \in {"write", "writing"} \cup WaitPcs

\* process_binary_message(decoded, ser); for a valid non-ACK message it goes
\* on into send_command(ser, CMD_ACK, [msg_id])
RxDispatch ==
    /\ pc["rx"] = "dispatch"
    /\ \E decoded \in {CobsDecode(rx_frame).bytes} :
       \E r \in {ProcessMessage(decoded, pending_acks)} :
          /\ pending_acks' = r.table
          /\ shown' = r.shown
          /\ IF r.ack
             THEN /\ sc' = [sc EXCEPT !["rx"] =
                               [NoCall EXCEPT !.cmd_type = CMD_ACK,
                                              !.data = <<r.msg_id>>]]
                  /\ pc' = [pc EXCEPT !["rx"] = "gen"]
             ELSE /\ sc' = sc
                  /\ pc' = [pc EXCEPT !["rx"] = "loop"]
          /\ heard' =
                IF MainOpen /\ CarriesAck(decoded, sc["main"].msg_id)
                THEN [any |-> TRUE,
                      valid |-> \/ heard.valid
                                \/ /\ WellFormed(decoded)
                                   /\ \/ pc["main"] \notin WaitPcs
                                      \/ elapsed["main"] < Timeout,
                      prior |-> heard.prior]
                ELSE heard
    /\ UNCHANGED <<last_sent_id, stop_thread, ser_open,
                   elapsed, writing, written, rx_frame, sends, frames>>

\* ------------------------------------------------------------ specification

SendCommand(t) ==
    \/ Draw(t)
    \/ Store(t)
    \/ Register(t)
    \/ WriteBegin(t)
    \/ WriteEnd(t)
    \/ While(t)
    \/ Check(t)

MainNext ==
    \/ MainCommand
    \/ MainReturned
    \/ MainQuit
    \/ MainInterrupt
    \/ MainFinally
    \/ MainClose
    \/ SendCommand("main")

RxNext ==
    \/ RxLoop
    \/ RxRead
    \/ RxReadError
    \/ RxRecover
    \/ RxDispatch
    \/ SendCommand("rx")

Next == MainNext \/ RxNext \/ Tick

Spec == Init /\ [][Next]_vars

\* The scheduler runs both threads and time passes; the user (MainCommand,
\* MainQuit, MainInterrupt) owes nothing.
FairSpec ==
    /\ Spec
    /\ WF_vars(RxNext)
    /\ WF_vars(SendCommand("main") \/ MainReturned \/ MainFinally \/ MainClose)
    /\ WF_vars(Tick)

\* ------------------------------------------------------------ claims

\* the frames the receiver may hold, each with what cobs.decode makes of it
\* and whether the envelope is well-formed and checksum-valid
InboundFrames == {Strip(raw) : raw \in InboundReads} \cup {<<>>}

Decodings == [frame \in InboundFrames |-> CobsDecode(frame)]

Validity ==
    [frame \in InboundFrames |->
        Decodings[frame].ok /\ WellFormed(Decodings[frame].bytes)]

\* the envelope the receiver got out of rx_frame
RxDecoded == Decodings[rx_frame].bytes

\* rx_frame was handed to process_binary_message
RxDispatched ==
    /\ Len(rx_frame) > 0
    /\ ~Oversized(rx_frame)
    /\ Decodings[rx_frame].ok

\* thread t takes a step of its own
Steps(t) == pc'[t] # pc[t]

\* main's send_command has returned from a command other than ACK whose
\* frame it wrote
MainSent ==
    /\ pc["main"] = "returned"
    /\ sc["main"].cmd_type # CMD_ACK
    /\ written["main"] # <<>>

\* C1: a send_command of a non-ACK command returns success if, between the
\* registration of its transaction and the end of the timeout, the receive
\* loop dispatched a well-formed, checksum-valid ACK envelope carrying its id.
C1_AckResolves ==
    (MainSent /\ heard.valid) => sc["main"].result = "True"

\* C2: a send_command of a non-ACK command for whose id no ACK envelope was
\* dispatched returns failure, and not before the timeout has elapsed since
\* the wait began.
C2_TimeoutFailure ==
    (MainSent /\ ~heard.any) =>
        /\ sc["main"].result = "False"
        /\ elapsed["main"] >= Timeout

C2_Witness ==
    /\ MainSent
    /\ ~heard.any
    /\ sc["main"].result = "False"
    /\ elapsed["main"] = Timeout

\* C3: the dispatch of a well-formed, checksum-valid envelope with a command
\* other than ACK calls send_command(CMD_ACK, [message id]); when that call
\* is over, exactly one frame is on the link, an ACK whose payload's first
\* byte is the inbound id (none only if the encoder or the link raised), and
\* at no time more than one.
C3_AutoAck ==
    /\ Len(written["rx"]) <= 1
    /\ (/\ pc["rx"] = "loop"
        /\ RxDispatched
        /\ Validity[rx_frame]
        /\ RxDecoded[1] # CMD_ACK)
       => /\ sc["rx"].cmd_type = CMD_ACK
          /\ sc["rx"].data = <<RxDecoded[2]>>
          /\ sc["rx"].msg_id \in 1..IdMax
          /\ IF sc["rx"].result = "True"
             THEN /\ Len(written["rx"]) = 1
                  /\ \E sent \in {CobsDecode(Strip(written["rx"][1]))} :
                        /\ sent.ok
                        /\ WellFormed(sent.bytes)
                        /\ sent.bytes[1] = CMD_ACK
                        /\ sent.bytes[4] = RxDecoded[2]
             ELSE written["rx"] = <<>>

C3_Witness ==
    /\ pc["rx"] = "loop"
    /\ RxDispatched
    /\ Validity[rx_frame]
    /\ RxDecoded[1] = CMD_UNKNOWN
    /\ sc["rx"].result = "True"
    /\ Len(written["rx"]) = 1

\* C4: the dispatch of an envelope whose trailing checksum byte differs from
\* the recomputed CRC leaves the pending-transaction table as it was.
C4_BadCrcLeavesTable ==
    [][(/\ pc["rx"] = "dispatch"
        /\ Steps("rx")
        /\ Len(RxDecoded) >= 4
        /\ RxDecoded[Len(RxDecoded)] #
              calculate_crc8(SubSeq(RxDecoded, 1, Len(RxDecoded) - 1)))
       => pending_acks' = pending_acks]_vars

\* generate_msg_id returns in thread t: last_sent_id = new_id; return new_id
Returns(t) ==
    /\ pc[t] = "store"
    /\ pc'[t] \in {"register", Caller(t)}

\* C5: every value generate_msg_id returns is in 1..255 and differs from the
\* value the call that returned before it returned (which is last_sent_id
\* at the time of the return), whichever threads the two calls ran in.
C5_FreshId ==
    [][\A t \in Threads :
          Returns(t) =>
              /\ sc[t].msg_id \in 1..IdMax
              /\ sc[t].msg_id # last_sent_id]_vars

\* C6: send_command of the ACK command never waits for an acknowledgment and
\* has returned True once its frame is written; the receiver thread is never
\* in the wait loop.
C6_AckDoesNotWait ==
    /\ pc["rx"] \notin WaitPcs
    /\ \A t \in Threads :
          sc[t].cmd_type = CMD_ACK =>
              /\ pc[t] \notin WaitPcs
              /\ written[t] # <<>> =>
                    (pc[t] = Caller(t) /\ sc[t].result = "True")

C6_Witness ==
    /\ pc["rx"] = "loop"
    /\ sc["rx"].cmd_type = CMD_ACK
    /\ sc["rx"].result = "True"
    /\ written["rx"] # <<>>
    /\ pc["main"] \in WaitPcs

\* C7: when the encoding fails, send_command returns False, it has written
\* nothing, and neither that step nor any step of the call before it changed
\* the pending-transaction table.
C7_EncodeFailure ==
    [][\A t \in Threads :
          /\ (pc[t] \in {"gen", "store"} /\ Steps(t))
                => pending_acks' = pending_acks
          /\ (pc[t] = "store" /\ pc'[t] = Caller(t))
                => /\ sc'[t].result = "False"
                   /\ written'[t] = <<>>
                   /\ writing' = writing]_vars

C7_Witness ==
    /\ pc["main"] = "returned"
    /\ sc["main"].result = "False"
    /\ written["main"] = <<>>
    /\ sc["main"].msg_id \in 1..IdMax
    /\ sc["main"].msg_id \notin DOMAIN pending_acks

\* C8: a frame of more than 50 bytes is discarded when read: it is not handed
\* to process_binary_message, no table entry changes, nothing is written, and
\* the loop is at its head again; a frame of exactly 50 bytes passes the check.
C8_OversizedDiscarded ==
    [][(pc["rx"] = "read" /\ pc'["rx"] \in {"loop", "dispatch"}) =>
          /\ Len(rx_frame') > MaxFrameLen =>
                /\ pc'["rx"] = "loop"
                /\ pending_acks' = pending_acks
                /\ written' = written
                /\ writing' = writing
                /\ sc' = sc
          /\ (Len(rx_frame') = MaxFrameLen /\ Decodings[rx_frame'].ok) =>
                pc'["rx"] = "dispatch"]_vars

C8_Witness ==
    /\ pc["rx"] = "loop"
    /\ Len(rx_frame) = MaxFrameLen + 1
    /\ Validity[rx_frame]
    /\ shown = {"oversized"}

\* the envelope in rx_frame is one process_binary_message drops or only
\* reports: too short, length mismatch, reserved id 0, checksum mismatch, or
\* an ACK of an id that has no transaction
NonFatalEnvelope ==
    \/ Len(RxDecoded) < 4
    \/ RxDecoded[3] # Len(RxDecoded) - 4
    \/ RxDecoded[2] = 0
    \/ ~Validity[rx_frame]
    \/ (CarriesAck(RxDecoded, RxDecoded[4]) /\ RxDecoded[4] \notin DOMAIN pending_acks)

\* C9: after an empty read, an oversized frame, a frame that does not decode,
\* and after the dispatch of a too short or length-mismatched envelope, a
\* checksum mismatch, an id 0 or an unmatched ACK, the receiver is at the head
\* of its loop; it ends only there, and only with the stop flag set.
C9_LoopSurvives ==
    [][/\ (pc["rx"] = "read" /\ pc'["rx"] \notin {"read", "dispatch", "error"})
          => pc'["rx"] = "loop"
       /\ (pc["rx"] = "dispatch" /\ Steps("rx") /\ NonFatalEnvelope)
          => pc'["rx"] = "loop"
       /\ (pc["rx"] = "loop" /\ Steps("rx") /\ ~stop_thread)
          => pc'["rx"] = "read"
       /\ (pc'["rx"] = "done" /\ Steps("rx"))
          => (pc["rx"] = "loop" /\ stop_thread)]_vars

C9_Witness ==
    /\ pc["rx"] = "loop"
    /\ RxDispatched
    /\ shown = {"crc_error"}
    /\ sc["rx"] = NoCall
    /\ ~stop_thread

\* C10: a link error raised by a read of the receiver leads to the shutdown:
\* stop flag set, receiver ended, link closed.
C10_LinkErrorShutsDown ==
    (pc["rx"] = "error") ~> (stop_thread /\ pc["rx"] = "done" /\ ~ser_open)

\* C11: a send_command call that returns after its write (success, or the
\* timeout failure) has written exactly one frame, the packet of its
\* envelope; no call has ever written more than one.
C11_OneFramePerCall ==
    [][\A t \in Threads :
          /\ Len(written'[t]) <= 1
          /\ (pc[t] \in {"writing"} \cup WaitPcs /\ pc'[t] = Caller(t)) =>
                /\ sc'[t].result \in {"True", "False"}
                /\ written'[t] =
                      <<Packet(BuildRaw(sc[t].cmd_type, sc[t].msg_id, sc[t].data))>>]_vars

C11_Witness ==
    /\ pc["main"] = "returned"
    /\ sc["main"].cmd_type = CMD_PAUSE
    /\ sc["main"].result = "True"
    /\ Len(written["main"]) = 1
    /\ elapsed["main"] > 0

\* C12: the main thread and the receiver thread are never both inside
\* ser.write at the same time.
C12_WritesExclusive == Cardinality(writing) <= 1

\* envelopes that differ in one byte (the last) from an envelope as built
CorruptedFrames ==
    {Strip(Packet(BadCrc(BuildRaw(CMD_ACK, p, <<1>>)))) : p \in PeerIds}
        \cup {Strip(Packet(BadCrc(BuildRaw(CMD_STATUS, p, Payload(StatusMinLen))))) :
                 p \in PeerIds}

\* C13: the dispatch of an envelope that differs in one byte from a built
\* one reports a checksum mismatch, changes no transaction and starts no
\* acknowledgment.
C13_CorruptionRejected ==
    [][(pc["rx"] = "dispatch" /\ Steps("rx") /\ rx_frame \in CorruptedFrames) =>
          /\ "crc_error" \in shown'
          /\ pending_acks' = pending_acks
          /\ pc'["rx"] = "loop"]_vars

\* the envelope in rx_frame has at least 4 bytes and fewer payload bytes
\* than its length byte says
RxTruncated ==
    /\ RxDispatched
    /\ Len(RxDecoded) >= 4
    /\ RxDecoded[3] > Len(RxDecoded) - 4

\* C14: the dispatch of an envelope of at least 4 bytes with fewer payload
\* bytes than its length byte says ends at the length check: it reports
\* nothing (no checksum error, no telemetry), changes no transaction and
\* starts no acknowledgment.
C14_TruncatedIsLengthMismatch ==
    [][(pc["rx"] = "dispatch" /\ Steps("rx") /\ RxTruncated) =>
          /\ shown' = {}
          /\ pending_acks' = pending_acks
          /\ sc' = sc
          /\ pc'["rx"] = "loop"]_vars

C14_Witness ==
    /\ pc["rx"] = "loop"
    /\ RxTruncated
    /\ RxDecoded[1] = CMD_POSITION
    /\ RxDecoded[Len(RxDecoded)] #
          calculate_crc8(SubSeq(RxDecoded, 1, Len(RxDecoded) - 1))
    /\ shown = {}

\* C15: the dispatch of an envelope whose message id is 0 reports nothing
\* (no telemetry), changes no transaction, starts no acknowledgment and
\* writes nothing, whatever its command, payload and checksum.
C15_IdZeroDropped ==
    [][(/\ pc["rx"] = "dispatch"
        /\ Steps("rx")
        /\ Len(RxDecoded) >= 2
        /\ RxDecoded[2] = 0) =>
          /\ shown' = {}
          /\ pending_acks' = pending_acks
          /\ sc' = sc
          /\ written' = written
          /\ pc'["rx"] = "loop"]_vars

C15_Witness ==
    /\ pc["rx"] = "loop"
    /\ RxDispatched
    /\ RxDecoded[1] = CMD_ACK
    /\ RxDecoded[2] = 0
    /\ RxDecoded[4] \in DOMAIN pending_acks
    /\ ~pending_acks[RxDecoded[4]].acked
    /\ shown = {}

\* C16: status or position telemetry is shown only for an envelope that is
\* well-formed and whose checksum is valid.
C16_TelemetryNeedsValidCrc ==
    (shown \cap {"status", "position"} # {}) => Validity[rx_frame]

\* C17: an ACK envelope handed to process_binary_message never leads into
\* send_command and nothing is written for it, with or without payload,
\* whether or not its payload names a pending id.
C17_AckNotAcknowledged ==
    (RxDispatched /\ RxDecoded[1] = CMD_ACK) =>
        /\ pc["rx"] \in {"dispatch", "loop"}
        /\ sc["rx"] = NoCall
        /\ written["rx"] = <<>>

C17_Witness ==
    /\ pc["rx"] = "loop"
    /\ RxDispatched
    /\ Validity[rx_frame]
    /\ CarriesAck(RxDecoded, RxDecoded[4])
    /\ Acked(pending_acks, RxDecoded[4])
    /\ written["rx"] = <<>>

\* C18: a transaction whose acknowledged flag is set keeps it set, and once
\* send_command has returned the timeout failure for an id, the dispatch of
\* a valid envelope leaves the entry of that id as it is.
C18_ResolvedIsTerminal ==
    [][/\ \A id \in DOMAIN pending_acks :
             pending_acks[id].acked =>
                 (id \in DOMAIN pending_acks' /\ pending_acks'[id].acked)
       /\ (/\ MainSent
           /\ sc["main"].result = "False"
           /\ pc["rx"] = "dispatch"
           /\ Validity[rx_frame]
           /\ Steps("rx"))
          => pending_acks'[sc["main"].msg_id] = pending_acks[sc["main"].msg_id]]_vars

\* C19: no step removes an id from pending_acks, and when send_command
\* returns after its write the entry of its id is in the table.
C19_TableNeverShrinks ==
    [][/\ DOMAIN pending_acks \subseteq DOMAIN pending_acks'
       /\ \A t \in Threads :
             (pc[t] \in {"writing"} \cup WaitPcs /\ pc'[t] = Caller(t)) =>
                 sc[t].msg_id \in DOMAIN pending_acks']_vars

C19_Witness ==
    /\ MainSent
    /\ sc["main"].result = "True"
    /\ Acked(pending_acks, sc["main"].msg_id)
    /\ Cardinality(DOMAIN pending_acks) = 2

\* C20: from the dispatch of a valid message that is no ACK to the return of
\* the send_command that acknowledges it, no step of the receiver changes
\* pending_acks.
C20_AutoAckRegistersNothing ==
    [][(/\ Steps("rx")
        /\ \/ pc["rx"] \in SendPcs
           \/ /\ pc["rx"] = "dispatch"
              /\ Validity[rx_frame]
              /\ RxDecoded[1] # CMD_ACK)
       => pending_acks' = pending_acks]_vars

\* C21: last_sent_id is the only id the allocator keeps clear of: a call at
\* generate_msg_id can draw every other id, the ids of unacknowledged
\* entries of pending_acks included.
C21_OnlyLastIdExcluded ==
    \A t \in Threads : \A m \in DrawIds :
        (pc[t] = "gen" /\ m # last_sent_id) =>
            ENABLED (Draw(t) /\ sc'[t].msg_id = m)

\* main registered its command under the id of an earlier command that was
\* still unacknowledged, and before its frame is written a valid ACK naming
\* the id has set the flag of its entry
C21_Witness ==
    /\ pc["main"] = "write"
    /\ written["main"] = <<>>
    /\ sc["main"].cmd_type = CMD_PAUSE
    /\ heard.prior = "open"
    /\ heard.valid
    /\ Acked(pending_acks, sc["main"].msg_id)

\* C22: once stop_thread is set, the receiver thread, as long as it is
\* scheduled, reaches the end of receiver_thread.
C22_StopEndsReceiver == stop_thread ~> (pc["rx"] = "done")

C22_Witness ==
    /\ stop_thread
    /\ pc["rx"] = "done"
    /\ pc["main"] = "join"
    /\ ser_open

\* C23: whenever a call of send_command is inside ser.write or has written
\* its frame, pending_acks has an entry for the id of the frame.
C23_RegisteredBeforeWrite ==
    \A t \in Threads :
        (pc[t] = "writing" \/ written[t] # <<>>) =>
            sc[t].msg_id \in DOMAIN pending_acks

C23_Witness ==
    /\ pc["main"] = "writing"
    /\ sc["main"].cmd_type = CMD_PAUSE
    /\ heard.valid
    /\ Acked(pending_acks, sc["main"].msg_id)

\* C24: when send_command has returned True for a command other than ACK, an
\* ACK envelope whose payload's first byte is its id was dispatched between
\* its registration and its return.
C24_SuccessNeedsAck ==
    (MainSent /\ sc["main"].result = "True") => heard.any

\* a command registered over an acknowledged entry of the same id, and not
\* acknowledged itself, has timed out
C24_Witness ==
    /\ MainSent
    /\ heard.prior = "acked"
    /\ ~heard.any
    /\ sc["main"].result = "False"

\* C25: every key of pending_acks is an id in 1..255, so the table has at
\* most 255 entries.
C25_KeysAreIds ==
    /\ DOMAIN pending_acks \subseteq 1..IdMax
    /\ Cardinality(DOMAIN pending_acks) <= IdMax

C25_Witness ==
    /\ DOMAIN pending_acks = {1, IdMax}
    /\ sends = MaxSends
    /\ frames = MaxFrames

====
